---- MODULE Spec2Model ----
(***************************************************************************)
(* A model of the SIM800L AT-command driver (src/SIM800L.cpp): the         *)
(* substring matcher strIndex, the response reader readResponse, the       *)
(* drain readToForget, the command framer sendCommand and the HTTP session *)
(* machine doGet / doPost built on them.                                   *)
(*                                                                         *)
(* Bytes are their ASCII codes, C strings are sequences of bytes, and a C  *)
(* index j is the TLA+ index j + 1.  Time is abstracted to one bit         *)
(* per wait, `expired': millis() - timerStart > timeout.  The polling      *)
(* loops spin much faster than the clock and the serial line, so the       *)
(* timeout of a wait elapses (Tick) only while nothing is available.       *)
(***************************************************************************)
EXTENDS Integers, Sequences, FiniteSets, TLC

VARIABLES
    \* the driver object
    internalBufferSize, internalBuffer, recvBufferSize, recvBuffer, dataSize,
    \* the transport: bytes available to read, bytes the device has still to
    \* deliver, and the units written by the driver
    rx, dev, tx,
    \* locals of the running readResponse / readToForget
    currentSizeResponse, seenCR, countCRLF, crlfToWait, expired, rrResult,
    \* the running doGet / doPost
    op, url, contentType, payload, step, phase, httpRC, idxBase, copyIdx, rc,
    \* history: the bytes the running read took from the transport, the stream
    \* the device was given to send, whether a timeout elapsed with device bytes
    \* still undelivered, the replies of the device in this call, the step that
    \* failed, every (step, code) pair seen, the number of calls made, and the
    \* receive buffer as the running call found it
    consumed, stream, lateDelivery, replyLog, failedStep, failLog, ncalls,
    entryBuffer,
    \* the running setPowerMode / getPowerMode / getRegistrationStatus: the
    \* mode asked for, the mode last observed, the value a query returned, the
    \* value setPowerMode returned, and the values the mode queries of the call
    \* returned, in order
    powerMode, currentPowerMode, queryResult, setResult, observed,
    \* the arguments and the result of a strIndex call
    str, findStr, startIdx, matchResult

driverVars == <<internalBufferSize, internalBuffer, recvBufferSize, recvBuffer, dataSize>>
transportVars == <<rx, dev, tx>>
readerVars == <<currentSizeResponse, seenCR, countCRLF, crlfToWait, expired, rrResult>>
callVars == <<op, url, contentType, payload>>
localVars == <<httpRC, idxBase, copyIdx>>
sessionVars == <<callVars, step, phase, localVars, rc>>
historyVars ==
    <<consumed, stream, lateDelivery, replyLog, failedStep, failLog, ncalls, entryBuffer>>
matcherVars == <<str, findStr, startIdx, matchResult>>
powerVars == <<powerMode, currentPowerMode, queryResult, setResult, observed>>
vars ==
    <<driverVars, transportVars, readerVars, sessionVars, historyVars, matcherVars,
      powerVars>>

(***************************************************************************)
(* Bytes and strings of the source.                                        *)
(***************************************************************************)
NUL == 0
CR == 13
LF == 10
QUOTE == 34
CH_0 == 48

CRLF == <<CR, LF>>

\* 'AT+HTTPINIT'  (SIM800L.cpp:51)
AT_CMD_HTTPINIT ==
    <<65, 84, 43, 72, 84, 84, 80, 73, 78, 73, 84>>
\* 'AT+HTTPPARA="CID",1'  (SIM800L.cpp:52)
AT_CMD_HTTPPARA_CID ==
    <<65, 84, 43, 72, 84, 84, 80, 80, 65, 82, 65, 61, 34, 67, 73, 68, 34, 44, 49>>
\* 'AT+HTTPPARA="URL",'  (SIM800L.cpp:53)
AT_CMD_HTTPPARA_URL ==
    <<65, 84, 43, 72, 84, 84, 80, 80, 65, 82, 65, 61, 34, 85, 82, 76, 34, 44>>
\* 'AT+HTTPPARA="CONTENT",'  (SIM800L.cpp:54)
AT_CMD_HTTPPARA_CONTENT ==
    <<65, 84, 43, 72, 84, 84, 80, 80, 65, 82, 65, 61, 34, 67, 79, 78, 84, 69, 78, 84, 34, 44>>
\* 'AT+HTTPSSL=1'  (SIM800L.cpp:55)
AT_CMD_HTTPSSL_Y ==
    <<65, 84, 43, 72, 84, 84, 80, 83, 83, 76, 61, 49>>
\* 'AT+HTTPSSL=0'  (SIM800L.cpp:56)
AT_CMD_HTTPSSL_N ==
    <<65, 84, 43, 72, 84, 84, 80, 83, 83, 76, 61, 48>>
\* 'AT+HTTPACTION=0'  (SIM800L.cpp:57)
AT_CMD_HTTPACTION0 ==
    <<65, 84, 43, 72, 84, 84, 80, 65, 67, 84, 73, 79, 78, 61, 48>>
\* 'AT+HTTPACTION=1'  (SIM800L.cpp:58)
AT_CMD_HTTPACTION1 ==
    <<65, 84, 43, 72, 84, 84, 80, 65, 67, 84, 73, 79, 78, 61, 49>>
\* 'AT+HTTPREAD'  (SIM800L.cpp:59)
AT_CMD_HTTPREAD ==
    <<65, 84, 43, 72, 84, 84, 80, 82, 69, 65, 68>>
\* 'AT+HTTPTERM'  (SIM800L.cpp:60)
AT_CMD_HTTPTERM ==
    <<65, 84, 43, 72, 84, 84, 80, 84, 69, 82, 77>>
\* 'OK'  (SIM800L.cpp:62)
AT_RSP_OK ==
    <<79, 75>>
\* 'DOWNLOAD'  (SIM800L.cpp:63)
AT_RSP_DOWNLOAD ==
    <<68, 79, 87, 78, 76, 79, 65, 68>>
\* '+HTTPREAD: '  (SIM800L.cpp:64)
AT_RSP_HTTPREAD ==
    <<43, 72, 84, 84, 80, 82, 69, 65, 68, 58, 32>>
\* 'AT+HTTPDATA='  (SIM800L.cpp:133)
HTTPDATA_PREFIX ==
    <<65, 84, 43, 72, 84, 84, 80, 68, 65, 84, 65, 61>>
\* '+HTTPACTION: 0,'  (SIM800L.cpp:276)
HTTPACTION_GET_PREFIX ==
    <<43, 72, 84, 84, 80, 65, 67, 84, 73, 79, 78, 58, 32, 48, 44>>
\* '+HTTPACTION: 1,'  (SIM800L.cpp:166)
HTTPACTION_POST_PREFIX ==
    <<43, 72, 84, 84, 80, 65, 67, 84, 73, 79, 78, 58, 32, 49, 44>>
\* 'https://'  (SIM800L.cpp:382)
HTTPS_SCHEME ==
    <<104, 116, 116, 112, 115, 58, 47, 47>>

(***************************************************************************)
(* C strings.  strlen stops at the first NUL; in a buffer without one it   *)
(* runs off the end, and StrLen gives the part inside the buffer.          *)
(***************************************************************************)
RECURSIVE StrLenFrom(_, _)
StrLenFrom(buf, j) ==
    IF j >= Len(buf) \/ buf[j + 1] = NUL THEN j ELSE StrLenFrom(buf, j + 1)

StrLen(buf) == StrLenFrom(buf, 0)

\* The C string a buffer holds: its bytes before the first NUL.
CStr(buf) == SubSeq(buf, 1, StrLen(buf))

\* buf[j] of the source, for a j inside the buffer.
At(buf, j) == buf[j + 1]

(***************************************************************************)
(* strIndex (lines 631-654).  One pass over str from startIdx: a matching  *)
(* byte extends the running match, any other byte drops it, and the byte   *)
(* that broke the match is not looked at again.                            *)
(***************************************************************************)
\* StrIndexMismatch with the start of the dropped match kept.
StrIndexMismatch_KeepsStart(s, f, i, firstIndex, sizeMatch) ==
    [firstIndex |-> firstIndex, sizeMatch |-> 0]

\* Lines 638-646, the byte at i mismatching: the running match is dropped.
StrIndexMismatch(s, f, i, firstIndex, sizeMatch) ==
    [firstIndex |-> -1, sizeMatch |-> 0]

\* Lines 638-642, the byte at i matching: the match starts or grows.
StrIndexMatch(s, f, i, firstIndex, sizeMatch) ==
    [firstIndex |-> IF firstIndex < 0 THEN i ELSE firstIndex,
     sizeMatch |-> sizeMatch + 1]

RECURSIVE StrIndexLoop(_, _, _, _, _)
StrIndexLoop(s, f, i, firstIndex, sizeMatch) ==
    IF i >= Len(s) \/ sizeMatch >= Len(f)
    THEN [firstIndex |-> firstIndex, sizeMatch |-> sizeMatch]
    ELSE LET nxt == IF s[i + 1] = f[sizeMatch + 1]
                    THEN StrIndexMatch(s, f, i, firstIndex, sizeMatch)
                    ELSE StrIndexMismatch(s, f, i, firstIndex, sizeMatch)
         IN StrIndexLoop(s, f, i + 1, nxt.firstIndex, nxt.sizeMatch)

\* s and f are C strings (no NUL inside).
strIndex(s, f, start) ==
    LET r == StrIndexLoop(s, f, start, -1, 0)
    IN IF r.sizeMatch >= Len(f) THEN r.firstIndex ELSE -1

(***************************************************************************)
(* The matcher on its own: strIndex applied to bounded inputs.             *)
(***************************************************************************)
MaxHay == 4
MaxNeedle == 3

RECURSIVE SeqsUpTo(_, _)
SeqsUpTo(S, n) ==
    IF n = 0 THEN {<<>>}
    ELSE LET shorter == SeqsUpTo(S, n - 1)
         IN shorter \cup {Append(q, b) : q \in {t \in shorter : Len(t) = n - 1}, b \in S}

\* 'A' and 'B'
MatcherAlphabet == {65, 66}

\* "ABCDEF", "CD", "ZZ": the examples of the matcher's contract.
EX_ABCDEF == <<65, 66, 67, 68, 69, 70>>
EX_CD == <<67, 68>>
EX_ZZ == <<90, 90>>

MatcherInputs ==
    {<<h, n, o>> : h \in SeqsUpTo(MatcherAlphabet, MaxHay),
                   n \in SeqsUpTo(MatcherAlphabet, MaxNeedle) \ {<<>>},
                   o \in 0..MaxHay}
    \cup {<<EX_ABCDEF, EX_CD, 0>>, <<EX_ABCDEF, EX_ZZ, 0>>, <<EX_ABCDEF, EX_CD, 3>>}


(***************************************************************************)
(* The scratch buffer and the response reader (lines 659-663, 787-842).    *)
(***************************************************************************)
\* initInternalBuffer (lines 659-663): every slot of the scratch buffer is NUL.
initInternalBuffer(n) == [j \in 1..n |-> NUL]

\* Lines 804-814: the "last byte was CR" flag after byte b.  An LF that closes
\* a CRLF takes the middle branch, which leaves the flag as it is.
RRSeenCR(b, seen) ==
    IF b = CR THEN TRUE
    ELSE IF b = LF /\ seen THEN seen
    ELSE FALSE

\* Lines 806-807: the CRLF counter (a uint8_t) after byte b.
RRCount(b, seen, cnt) ==
    IF b # CR /\ b = LF /\ seen THEN (cnt + 1) % 256 ELSE cnt

\* Lines 808-811: byte b ends the read, the awaited number of CRLFs counted.
RRBreakCRLF(b, seen, cnt, k) ==
    b # CR /\ b = LF /\ seen /\ RRCount(b, seen, cnt) = k

\* Lines 817-823: the buffer is full after the byte was stored and counted.
RRBreakFull(cur, n) == cur = n

\* RRReturn with the timeout looked at before the end of the response.
RRReturn_TimeoutFirst(brk, exp) ==
    IF exp THEN <<FALSE>> ELSE IF brk THEN <<TRUE>> ELSE <<>>

\* Lines 826-831 after a read that did not end the loop, and the value
\* returned at line 841 after one that did.
RRReturn(brk, exp) ==
    IF brk THEN <<TRUE>> ELSE IF exp THEN <<FALSE>> ELSE <<>>

\* The start of readResponse(timeout, k) (lines 788-795).
BeginRead(k) ==
    /\ internalBuffer' = initInternalBuffer(internalBufferSize)
    /\ currentSizeResponse' = 0
    /\ seenCR' = FALSE
    /\ countCRLF' = 0
    /\ crlfToWait' = k
    /\ expired' = FALSE
    /\ rrResult' = FALSE
    /\ consumed' = <<>>
    /\ phase' = "read"

\* One pass of the loop of readResponse (lines 797-832).
RR_Iter ==
    /\ phase = "read"
    /\ IF rx # <<>>
       THEN LET b == Head(rx)
                brkCRLF == RRBreakCRLF(b, seenCR, countCRLF, crlfToWait)
                cur == IF brkCRLF THEN currentSizeResponse ELSE currentSizeResponse + 1
                brk == brkCRLF \/ RRBreakFull(cur, internalBufferSize)
                ret == RRReturn(brk, expired)
            IN /\ rx' = Tail(rx)
               /\ internalBuffer' = [internalBuffer EXCEPT ![currentSizeResponse + 1] = b]
               /\ seenCR' = RRSeenCR(b, seenCR)
               /\ countCRLF' = RRCount(b, seenCR, countCRLF)
               /\ currentSizeResponse' = cur
               /\ consumed' = Append(consumed, b)
               /\ phase' = IF ret = <<>> THEN "read" ELSE "ret_read"
               /\ rrResult' = IF ret = <<>> THEN rrResult ELSE ret[1]
       ELSE /\ RRReturn(FALSE, expired) = <<FALSE>>
            /\ phase' = "ret_read"
            /\ rrResult' = FALSE
            /\ UNCHANGED <<rx, internalBuffer, seenCR, countCRLF, currentSizeResponse, consumed>>
    /\ UNCHANGED <<internalBufferSize, recvBufferSize, recvBuffer, dataSize, dev, tx,
                   crlfToWait, expired, callVars, step, localVars, rc,
                   stream, lateDelivery, replyLog, failedStep, failLog, ncalls, entryBuffer,
                   matcherVars, powerVars>>

\* The timeout of the running wait elapses.  The loop has taken every byte
\* that was available by then.
Tick ==
    /\ phase \in {"read", "drain"}
    /\ ~expired
    /\ rx = <<>>
    /\ expired' = TRUE
    /\ lateDelivery' = (lateDelivery \/ dev # <<>>)
    /\ UNCHANGED <<driverVars, transportVars, currentSizeResponse, seenCR, countCRLF,
                   crlfToWait, rrResult, sessionVars, consumed, stream, replyLog,
                   failedStep, failLog, ncalls, entryBuffer,
                   matcherVars, powerVars>>

\* The device's next byte arrives at the transport.
DeviceDeliver ==
    /\ dev # <<>>
    /\ rx' = Append(rx, Head(dev))
    /\ dev' = Tail(dev)
    /\ UNCHANGED <<driverVars, tx, readerVars, sessionVars, historyVars, matcherVars, powerVars>>

(***************************************************************************)
(* Values of the variables a specification does not use.                   *)
(***************************************************************************)
NoSession ==
    /\ op = "none" /\ url = <<>> /\ contentType = <<>> /\ payload = <<>>
    /\ step = "NONE" /\ httpRC = 0
    /\ idxBase = 0 /\ copyIdx = 0 /\ rc = 0
    /\ replyLog = <<>> /\ failedStep = "NONE" /\ failLog = {} /\ ncalls = 0
    /\ entryBuffer = <<>>

NoPower ==
    /\ powerMode = "NONE" /\ currentPowerMode = "NONE" /\ queryResult = "NONE"
    /\ setResult = FALSE /\ observed = <<>>

NoMatcher == str = <<>> /\ findStr = <<>> /\ startIdx = 0 /\ matchResult = <<>>

NoReader ==
    /\ currentSizeResponse = 0 /\ seenCR = FALSE /\ countCRLF = 0 /\ crlfToWait = 0
    /\ expired = FALSE /\ rrResult = FALSE /\ consumed = <<>> /\ lateDelivery = FALSE

(***************************************************************************)
(* SpecMatcher: strIndex called once on an input of MatcherInputs.         *)
(***************************************************************************)
InitMatcher ==
    /\ \E in \in MatcherInputs : str = in[1] /\ findStr = in[2] /\ startIdx = in[3]
    /\ matchResult = <<>>
    /\ internalBufferSize = 1 /\ internalBuffer = <<NUL>>
    /\ recvBufferSize = 1 /\ recvBuffer = <<NUL>> /\ dataSize = 0
    /\ rx = <<>> /\ dev = <<>> /\ tx = <<>> /\ stream = <<>>
    /\ phase = "idle"
    /\ NoReader /\ NoSession /\ NoPower

StrIndexCall ==
    /\ matchResult = <<>>
    /\ matchResult' = <<strIndex(str, findStr, startIdx)>>
    /\ UNCHANGED <<driverVars, transportVars, readerVars, sessionVars, historyVars,
                   str, findStr, startIdx, powerVars>>

NextMatcher == StrIndexCall

SpecMatcher == InitMatcher /\ [][NextMatcher]_vars

(***************************************************************************)
(* SpecReader: one readResponse call against a device that sends a bounded *)
(* stream of CR, LF and 'A' bytes, at any pace.                            *)
(***************************************************************************)
MaxN == 5
MaxStream == 5
MaxCrlf == 2

\* CR, LF and 'A'
ReaderAlphabet == {CR, LF, 65}

\* The scratch buffer as malloc leaves it (line 89): not zeroed.
Garbage(n) == [j \in 1..n |-> 65]

InitReader ==
    /\ internalBufferSize \in 1..MaxN
    /\ internalBuffer = Garbage(internalBufferSize)
    /\ recvBufferSize = 1 /\ recvBuffer = <<NUL>> /\ dataSize = 0
    /\ stream \in SeqsUpTo(ReaderAlphabet, MaxStream)
    /\ dev = stream
    /\ rx = <<>> /\ tx = <<>>
    /\ phase = "idle"
    /\ NoReader /\ NoSession /\ NoMatcher /\ NoPower

\* readResponse(timeout, k) is called.
ReadResponseCall ==
    /\ phase = "idle"
    /\ \E k \in 1..MaxCrlf : BeginRead(k)
    /\ UNCHANGED <<internalBufferSize, recvBufferSize, recvBuffer, dataSize, transportVars,
                   callVars, step, localVars, rc,
                   stream, lateDelivery, replyLog, failedStep, failLog, ncalls, entryBuffer,
                   matcherVars, powerVars>>

NextReader == ReadResponseCall \/ RR_Iter \/ Tick \/ DeviceDeliver

SpecReader == InitReader /\ [][NextReader]_vars

(***************************************************************************)
(* Claims about the matcher and the reader.                                *)
(***************************************************************************)
\* The needle f occurs in s as a contiguous substring starting at C index i.
Occurs(s, f, i) == i + Len(f) <= Len(s) /\ SubSeq(s, i + 1, i + Len(f)) = f

\* The smallest index >= start at which f occurs in s, or -1.
FirstOccurrence(s, f, start) ==
    LET at == {i \in start..Len(s) : Occurs(s, f, i)}
    IN IF at = {} THEN -1 ELSE CHOOSE i \in at : \A j \in at : i <= j

\* The ends (TLA+ indexes of the LF) of the CRLF sequences of s.
CrlfEnds(s) == {i \in 2..Len(s) : s[i] = LF /\ s[i - 1] = CR}

CountCRLF(s) == Cardinality(CrlfEnds(s))

\* The end of the k-th CRLF sequence of s, for 1 <= k <= CountCRLF(s).
KthCrlfEnd(s, k) ==
    CHOOSE i \in CrlfEnds(s) : Cardinality({j \in CrlfEnds(s) : j <= i}) = k

\* C1: a device stream that fits in the scratch buffer, holds exactly k CRLF
\* sequences and is delivered before the timeout makes readResponse(timeout, k)
\* return success with the buffer holding the stream up to and including its
\* k-th CRLF; and the CRLF counter counts only LFs that directly follow a CR.
C1_ReaderReturnsKthLine ==
    /\ phase \in {"read", "ret_read"} => countCRLF <= CountCRLF(consumed)
    /\ ( /\ phase = "ret_read"
         /\ Len(stream) <= internalBufferSize
         /\ CountCRLF(stream) = crlfToWait
         /\ ~lateDelivery )
       => /\ rrResult
          /\ LET e == KthCrlfEnd(stream, crlfToWait)
             IN SubSeq(internalBuffer, 1, e) = SubSeq(stream, 1, e)

\* C2: readResponse returns failure exactly when the timeout elapsed with
\* fewer than crlfToWait CRLFs counted and the buffer not full; a buffer filled
\* before crlfToWait CRLFs were counted gives success, the buffer holding the
\* first internalBufferSize bytes received.
C2_ReaderFailsOnlyOnTimeout ==
    phase = "ret_read" =>
        /\ (~rrResult) <=> ( /\ expired
                             /\ countCRLF < crlfToWait
                             /\ currentSizeResponse < internalBufferSize )
        /\ (currentSizeResponse = internalBufferSize /\ countCRLF < crlfToWait)
           => /\ rrResult
              /\ internalBuffer = SubSeq(stream, 1, internalBufferSize)

\* The buffer of at least two slots filled before the awaited CRLF: truncation.
C2_Witness ==
    /\ phase = "ret_read"
    /\ internalBufferSize >= 2
    /\ currentSizeResponse = internalBufferSize
    /\ countCRLF < crlfToWait
    /\ rrResult

\* C3: strIndex returns the smallest index >= startOffset at which the needle
\* occurs in the haystack, and -1 only when it occurs at no such index.
C3_MatcherFindsFirstOccurrence ==
    matchResult # <<>> => matchResult[1] = FirstOccurrence(str, findStr, startIdx)

(***************************************************************************)
(* The HTTP session machine: doGet, doPost, initiateHTTP, terminateHTTP    *)
(* (lines 111-410), over sendCommand, readToForget, readResponse and       *)
(* strIndex.  A call runs from one wait on the transport to the next:      *)
(* `step' is the protocol step and `phase' the place inside it ("drain":   *)
(* in readToForget, "write": about to write, "read": in readResponse,      *)
(* "ret_read": readResponse returned, "copy": in the payload loop).        *)
(***************************************************************************)
UINT16 == 65536

\* The range of dataSize, a field declared in SIM800L.h.
DataSizeRange == UINT16

\* The default of readResponse's crlfToWait, declared in SIM800L.h.
DefaultCrlfToWait == 1

\* sprintf("%d") of a natural number (line 133).
RECURSIVE Dec(_)
Dec(n) == IF n < 10 THEN <<CH_0 + n>> ELSE Dec(n \div 10) \o <<CH_0 + (n % 10)>>

\* sendCommand(command) (lines 680-681): the bytes written.
Framed(command) == command \o CRLF

\* FramedParam without the quotes.
FramedParam_Unquoted(command, parameter) == command \o parameter \o CRLF

\* sendCommand(command, parameter) (lines 709-713): the bytes written.
FramedParam(command, parameter) ==
    command \o <<QUOTE>> \o parameter \o <<QUOTE>> \o CRLF

\* The client write timeout passed with AT+HTTPDATA, as printed by line 133.
CLIENT_WRITE_TIMEOUT == Dec(10000)

\* What the step writes to the transport.
Unit(s) ==
    CASE s = "INIT" -> Framed(AT_CMD_HTTPINIT)
      [] s = "CID" -> Framed(AT_CMD_HTTPPARA_CID)
      [] s = "URL" -> FramedParam(AT_CMD_HTTPPARA_URL, url)
      [] s = "SSL" -> IF strIndex(url, HTTPS_SCHEME, 0) = 0
                      THEN Framed(AT_CMD_HTTPSSL_Y) ELSE Framed(AT_CMD_HTTPSSL_N)
      [] s = "CONTENT" -> FramedParam(AT_CMD_HTTPPARA_CONTENT, contentType)
      [] s = "DATA" -> Framed(HTTPDATA_PREFIX \o Dec(Len(payload)) \o <<44>>
                              \o CLIENT_WRITE_TIMEOUT)
      [] s = "PAYLOAD" -> payload
      [] s = "ACTION" -> IF op = "GET" THEN Framed(AT_CMD_HTTPACTION0)
                         ELSE Framed(AT_CMD_HTTPACTION1)
      [] s = "READ" -> Framed(AT_CMD_HTTPREAD)
      [] s = "TERM" -> Framed(AT_CMD_HTTPTERM)

\* The token readResponseCheckAnswer_P looks for at the step.
Expected(s) ==
    CASE s = "DATA" -> AT_RSP_DOWNLOAD
      [] s = "READ" -> AT_RSP_HTTPREAD
      [] OTHER -> AT_RSP_OK

\* CrlfOf with the acknowledgement of AT+HTTPREAD read like every other.
CrlfOf_AlwaysDefault(s) == DefaultCrlfToWait

\* The crlfToWait the step's read is called with (line 311: 2).
CrlfOf(s) == IF s = "READ" THEN 2 ELSE DefaultCrlfToWait

\* FailCode with the payload-size declaration reported as a parameter step.
FailCode_DataAsParameter(s) ==
    CASE s = "INIT" -> 701
      [] s \in {"CID", "URL", "SSL", "CONTENT", "DATA"} -> 702
      [] s \in {"ACTION", "PARSE"} -> 703
      [] s = "WAIT" -> 408
      [] s \in {"READ", "FINAL"} -> 705
      [] s = "TERM" -> 706

\* FailCode with a failed terminate reported as 506.
FailCode_TermInHttpRange(s) ==
    CASE s = "INIT" -> 701
      [] s \in {"CID", "URL", "SSL", "CONTENT"} -> 702
      [] s = "DATA" -> 707
      [] s \in {"ACTION", "PARSE"} -> 703
      [] s = "WAIT" -> 408
      [] s \in {"READ", "FINAL"} -> 705
      [] s = "TERM" -> 506

\* The code returned when the step fails.  "WAIT" is the wait for the
\* server timing out, "PARSE" the answer of the server lacking +HTTPACTION,
\* "FINAL" the OK that closes the payload.
FailCode(s) ==
    CASE s = "INIT" -> 701
      [] s = "CID" -> 702
      [] s = "URL" -> 702
      [] s = "SSL" -> 702
      [] s = "CONTENT" -> 702
      [] s = "DATA" -> 707
      [] s = "ACTION" -> 703
      [] s = "WAIT" -> 408
      [] s = "PARSE" -> 703
      [] s = "READ" -> 705
      [] s = "FINAL" -> 705
      [] s = "TERM" -> 706

\* The step after an acknowledged one (initiateHTTP, then doGet or doPost).
NextStep(s) ==
    CASE s = "INIT" -> "CID"
      [] s = "CID" -> "URL"
      [] s = "URL" -> "SSL"
      [] s = "SSL" -> IF op = "GET" THEN "ACTION" ELSE "CONTENT"
      [] s = "CONTENT" -> "DATA"
      [] s = "DATA" -> "PAYLOAD"
      [] s = "PAYLOAD" -> "ACTION"
      [] s = "FINAL" -> "TERM"

\* CheckAnswer with the token not looked for.
CheckAnswer_AnyRead(expectedAnswer) == rrResult

\* readResponseCheckAnswer_P (lines 768-781), the read done.
CheckAnswer(expectedAnswer) ==
    rrResult /\ strIndex(CStr(internalBuffer), expectedAnswer, 0) > 0

\* Lines 276 / 166: where the +HTTPACTION prefix of the method starts.
ActionPrefix == IF op = "GET" THEN HTTPACTION_GET_PREFIX ELSE HTTPACTION_POST_PREFIX

\* Lines 283-286: the three digits after the prefix, into a uint16_t.
ParseStatus(buf, idx) ==
    ( (At(buf, idx + 15) - CH_0) * 100
      + (At(buf, idx + 16) - CH_0) * 10
      + (At(buf, idx + 17) - CH_0) ) % UINT16

\* ParseSize with the accumulator never multiplied by 10.
RECURSIVE ParseSize_NoShift(_, _, _, _)
ParseSize_NoShift(buf, idx, i, acc) ==
    LET d == At(buf, idx + 19 + i) - CH_0
    IN IF d >= 0 /\ d <= 9
       THEN ParseSize_NoShift(buf, idx, i + 1, (acc + d) % DataSizeRange)
       ELSE acc

\* Lines 295-301: the run of digits at idx + 19, accumulated into dataSize.
RECURSIVE ParseSize(_, _, _, _)
ParseSize(buf, idx, i, acc) ==
    LET d == At(buf, idx + 19 + i) - CH_0
    IN IF d >= 0 /\ d <= 9
       THEN ParseSize(buf, idx, i + 1,
                      ((IF i # 0 THEN acc * 10 ELSE acc) + d) % DataSizeRange)
       ELSE acc

\* CopyAdvance without the filter.
CopyAdvance_Unfiltered(b, i) == i + 1

\* Lines 322-324 and the i++ of line 316: the index after byte b was stored
\* at i.  The i-- at i = 0 wraps to 65535 and the i++ brings it back to 0.
CopyAdvance(b, i) == IF b = CR \/ b = LF THEN i ELSE i + 1

\* CopyContinues without the bound of the capacity.
CopyContinues_DeclaredOnly(i) == i < dataSize

\* The condition of the loop (line 316 / 206).
CopyContinues(i) == i < dataSize /\ i < recvBufferSize

\* ClearedRecvBuffer without the cleanup loop.
ClearedRecvBuffer_Skipped(buf) == buf

\* Lines 251-253 / 113-115: the receive buffer after the cleanup loop.
ClearedRecvBuffer(buf) == [j \in DOMAIN buf |-> NUL]

\* Lines 328-329 / 218-219: dataSize cut to the capacity after the copy.
Truncated(size) == IF recvBufferSize < size THEN recvBufferSize ELSE size

\* getDataSizeReceived (lines 437-439): dataSize returned as a uint8_t.
getDataSizeReceived == dataSize % 256

(***************************************************************************)
(* The device: what it may send back after each unit written.              *)
(***************************************************************************)
\* " OK\r\n": the token after one byte, on one line.
RSP_LEAD_OK == <<32>> \o AT_RSP_OK \o CRLF
\* "OK\r\n": the token first.
RSP_BARE_OK == AT_RSP_OK \o CRLF
\* "\r\nOK\r\n": the token on a line of its own.
RSP_LINE_OK == CRLF \o AT_RSP_OK \o CRLF
\* " DOWNLOAD\r\n"
RSP_LEAD_DOWNLOAD == <<32>> \o AT_RSP_DOWNLOAD \o CRLF

AckReplies == {RSP_LEAD_OK, RSP_BARE_OK, RSP_LINE_OK, <<>>}

\* "+HTTPACTION: <m>,<status>,<length>\r\n"
ActionLine(prefix, status, length) == prefix \o status \o <<44>> \o length \o CRLF

D_200 == <<50, 48, 48>>
D_404 == <<52, 48, 52>>
D_0 == <<48>>
D_5 == <<53>>
HELLO == <<72, 69, 76, 76, 79>>

ActionLines ==
    {ActionLine(ActionPrefix, D_200, D_5), ActionLine(ActionPrefix, D_200, D_0),
     ActionLine(ActionPrefix, D_404, D_0),
     ActionLine(HTTPACTION_GET_PREFIX, D_200, D_5), <<>>}

\* "+HTTPREAD: 5\r\nHELLOOK"
READ_BARE_HELLO == AT_RSP_HTTPREAD \o D_5 \o CRLF \o HELLO \o AT_RSP_OK
\* "\r\n+HTTPREAD: 5\r\n"
READ_ACK == CRLF \o AT_RSP_HTTPREAD \o D_5 \o CRLF
\* "\r\n+HTTPREAD: 5\r\nHELLO OK\r\n"
READ_LINE_HELLO == READ_ACK \o HELLO \o RSP_LEAD_OK
\* the same with a line break inside the payload, and without the closing OK
READ_LINE_HE_LLO == READ_ACK \o <<72, 69>> \o CRLF \o <<76, 76, 79>> \o RSP_LEAD_OK
READ_LINE_HELLO_ONLY == READ_ACK \o HELLO

ReadReplies ==
    {READ_BARE_HELLO, READ_LINE_HELLO, READ_LINE_HE_LLO, READ_LINE_HELLO_ONLY, <<>>}

Replies(s) ==
    CASE s = "DATA" -> {RSP_LEAD_DOWNLOAD, RSP_LEAD_OK, <<>>}
      [] s = "PAYLOAD" -> {RSP_LEAD_OK, <<>>}
      [] s = "ACTION" -> {RSP_LEAD_OK \o l : l \in ActionLines} \cup {RSP_BARE_OK, <<>>}
      [] s = "READ" -> ReadReplies
      [] OTHER -> AckReplies

\* "http://a", "https://a", "t/p", "x=1"
URL_HTTP == <<104, 116, 116, 112, 58, 47, 47, 97>>
URL_HTTPS == <<104, 116, 116, 112, 115, 58, 47, 47, 97>>
CONTENT_TYPE == <<116, 47, 112>>
PAYLOAD == <<120, 61, 49>>

(***************************************************************************)
(* Control: how a call goes on after a wait.                               *)
(***************************************************************************)
\* The start of readToForget (lines 730-735).
BeginDrain ==
    /\ internalBuffer' = initInternalBuffer(internalBufferSize)
    /\ currentSizeResponse' = 0
    /\ expired' = FALSE
    /\ phase' = "drain"

\* sendCommand for step s begins: flush, then readToForget(500).
K_Command(s) ==
    /\ step' = s
    /\ BeginDrain
    /\ UNCHANGED <<seenCR, countCRLF, crlfToWait, rrResult, consumed, rc, failedStep, failLog>>

\* readResponse(timeout, k) begins for step s.
K_Read(s, k) ==
    /\ step' = s
    /\ BeginRead(k)
    /\ UNCHANGED <<rc, failedStep, failLog>>

\* The call returns code; failed is the step that failed, or "NONE".
K_Return(code, failed) ==
    /\ phase' = "idle"
    /\ rc' = code
    /\ failedStep' = failed
    /\ failLog' = IF failed = "NONE" THEN failLog ELSE failLog \cup {<<failed, code>>}
    /\ UNCHANGED <<step, internalBuffer, currentSizeResponse, seenCR, countCRLF,
                   crlfToWait, expired, rrResult, consumed>>

\* K_Fail with the session terminated before the return.
K_Fail_Terminating(failed) ==
    /\ K_Return(FailCode(failed), failed)
    /\ tx' = Append(tx, Framed(AT_CMD_HTTPTERM))

\* A failed step: the code of the step is returned at once.
K_Fail(failed) ==
    /\ K_Return(FailCode(failed), failed)
    /\ tx' = tx

(***************************************************************************)
(* The operations.                                                         *)
(***************************************************************************)
MaxCalls == 2
ScratchSize == 24
MaxRecv == 6

\* Lines 249-257 / 111-119 up to the first wait of initiateHTTP.
BeginCall(o, u, ct, pl) ==
    /\ phase = "idle"
    /\ ncalls < MaxCalls
    /\ recvBuffer' = ClearedRecvBuffer(recvBuffer)
    /\ dataSize' = 0
    /\ op' = o /\ url' = u /\ contentType' = ct /\ payload' = pl
    /\ step' = "INIT"
    /\ BeginDrain
    /\ seenCR' = FALSE /\ countCRLF' = 0 /\ crlfToWait' = 0 /\ rrResult' = FALSE
    /\ consumed' = <<>>
    /\ httpRC' = 0 /\ idxBase' = 0 /\ copyIdx' = 0 /\ rc' = 0
    /\ tx' = <<>> /\ replyLog' = <<>> /\ lateDelivery' = FALSE /\ failedStep' = "NONE"
    /\ ncalls' = ncalls + 1
    /\ entryBuffer' = recvBuffer
    /\ UNCHANGED <<internalBufferSize, recvBufferSize, rx, dev, stream, failLog, matcherVars, powerVars>>

DoGet == \E u \in {URL_HTTP, URL_HTTPS} : BeginCall("GET", u, <<>>, <<>>)

DoPost == \E u \in {URL_HTTP, URL_HTTPS} : BeginCall("POST", u, CONTENT_TYPE, PAYLOAD)

\* One pass of the loop of readToForget (lines 737-756); when it ends,
\* sendCommand is about to write.
RTF_Iter ==
    /\ phase = "drain"
    /\ IF rx # <<>>
       THEN /\ rx' = Tail(rx)
            /\ internalBuffer' = [internalBuffer EXCEPT ![currentSizeResponse + 1] = Head(rx)]
            /\ currentSizeResponse' = currentSizeResponse + 1
            /\ phase' = IF currentSizeResponse + 1 = internalBufferSize \/ expired
                        THEN "write" ELSE "drain"
       ELSE /\ expired
            /\ phase' = "write"
            /\ UNCHANGED <<rx, internalBuffer, currentSizeResponse>>
    /\ UNCHANGED <<internalBufferSize, recvBufferSize, recvBuffer, dataSize, dev, tx,
                   seenCR, countCRLF, crlfToWait, expired, rrResult, callVars, step,
                   localVars, rc, historyVars, matcherVars, powerVars>>

\* The writes of sendCommand (lines 680-682, 709-714) or of the payload
\* (lines 149-150), what the device sends back, and the call going on to its
\* next wait.  The device answers at once or not at all: its reply is at
\* the transport before the driver polls again.
SendCommandWrite ==
    /\ phase = "write"
    /\ tx' = Append(tx, Unit(step))
    /\ \E r \in Replies(step) :
          /\ rx' = rx \o r
          /\ replyLog' = Append(replyLog, r)
    /\ IF step = "PAYLOAD"
       THEN K_Command(NextStep(step))
       ELSE K_Read(step, CrlfOf(step))
    /\ UNCHANGED <<internalBufferSize, recvBufferSize, recvBuffer, dataSize, dev,
                   callVars, localVars, stream, lateDelivery, ncalls, entryBuffer,
                   matcherVars, powerVars>>

\* The code after a readResponse of doGet / doPost / initiateHTTP /
\* terminateHTTP returned, up to the next wait or the return.
AfterRead ==
    /\ phase = "ret_read"
    /\ step # "NONE"
    /\ CASE step \in {"INIT", "CID", "URL", "SSL", "CONTENT", "DATA", "FINAL"} ->
              /\ IF CheckAnswer(Expected(step))
                 THEN K_Command(NextStep(step)) /\ tx' = tx
                 ELSE K_Fail(step)
              /\ UNCHANGED <<dataSize, localVars>>
         [] step = "ACTION" ->
              /\ IF CheckAnswer(Expected(step))
                 THEN K_Read("WAIT", DefaultCrlfToWait) /\ tx' = tx
                 ELSE K_Fail(step)
              /\ UNCHANGED <<dataSize, localVars>>
         [] step = "WAIT" ->
              IF ~rrResult
              THEN K_Fail("WAIT") /\ UNCHANGED <<dataSize, localVars>>
              ELSE LET idx == strIndex(CStr(internalBuffer), ActionPrefix, 0)
                       status == ParseStatus(internalBuffer, idx)
                   IN IF idx < 0
                      THEN /\ K_Fail("PARSE")
                           /\ idxBase' = idx
                           /\ UNCHANGED <<dataSize, httpRC, copyIdx>>
                      ELSE /\ idxBase' = idx
                           /\ httpRC' = status
                           /\ copyIdx' = copyIdx
                           /\ tx' = tx
                           /\ IF status = 200
                              THEN /\ dataSize' = ParseSize(internalBuffer, idx, 0, 0)
                                   /\ K_Command("READ")
                              ELSE /\ dataSize' = dataSize
                                   /\ K_Command("TERM")
         [] step = "READ" ->
              IF ~CheckAnswer(Expected(step))
              THEN K_Fail(step) /\ UNCHANGED <<dataSize, localVars>>
              ELSE /\ tx' = tx
                   /\ copyIdx' = 0
                   /\ UNCHANGED <<httpRC, idxBase>>
                   /\ IF CopyContinues(0)
                      THEN /\ step' = "COPY"
                           /\ phase' = "copy"
                           /\ UNCHANGED <<dataSize, internalBuffer, currentSizeResponse,
                                          seenCR, countCRLF, crlfToWait, expired, rrResult,
                                          consumed, rc, failedStep, failLog>>
                      ELSE /\ dataSize' = Truncated(dataSize)
                           /\ K_Read("FINAL", DefaultCrlfToWait)
         [] step = "TERM" ->
              /\ IF CheckAnswer(Expected(step))
                 THEN K_Return(httpRC, "NONE") /\ tx' = tx
                 ELSE K_Fail(step)
              /\ UNCHANGED <<dataSize, localVars>>
    /\ UNCHANGED <<internalBufferSize, recvBufferSize, recvBuffer, rx, dev, callVars,
                   stream, lateDelivery, replyLog, ncalls, entryBuffer,
                   matcherVars, powerVars>>

\* One pass of the payload loop (lines 316-326 / 206-216) with a byte
\* available, and what follows the loop when it was the last (lines 328-336).
CopyIter ==
    /\ phase = "copy"
    /\ rx # <<>>
    /\ LET b == Head(rx)
           i == CopyAdvance(b, copyIdx)
       IN /\ rx' = Tail(rx)
          /\ recvBuffer' = [recvBuffer EXCEPT ![copyIdx + 1] = b]
          /\ copyIdx' = i
          /\ IF CopyContinues(i)
             THEN UNCHANGED <<dataSize, step, phase, internalBuffer, currentSizeResponse,
                              seenCR, countCRLF, crlfToWait, expired, rrResult, consumed,
                              rc, failedStep, failLog>>
             ELSE /\ dataSize' = Truncated(dataSize)
                  /\ K_Read("FINAL", DefaultCrlfToWait)
    /\ UNCHANGED <<internalBufferSize, recvBufferSize, dev, tx, callVars, httpRC, idxBase,
                   stream, lateDelivery, replyLog, ncalls, entryBuffer,
                   matcherVars, powerVars>>

InitHttp ==
    /\ internalBufferSize = ScratchSize
    /\ internalBuffer = Garbage(internalBufferSize)
    /\ recvBufferSize \in {MaxRecv - 3, MaxRecv}
    /\ recvBuffer = Garbage(recvBufferSize)
    /\ dataSize = 0
    /\ rx = <<>> /\ dev = <<>> /\ tx = <<>> /\ stream = <<>>
    /\ phase = "idle"
    /\ NoReader /\ NoSession /\ NoMatcher /\ NoPower

NextHttp ==
    \/ DoGet \/ DoPost \/ RTF_Iter \/ SendCommandWrite \/ RR_Iter \/ AfterRead
    \/ CopyIter \/ Tick

SpecHttp == InitHttp /\ [][NextHttp]_vars

(***************************************************************************)
(* Claims about the HTTP session machine.                                  *)
(***************************************************************************)
\* Every reply the device gave in this call is one the script allows at
\* that place.
Conforms(script) ==
    /\ Len(replyLog) <= Len(script)
    /\ \A i \in 1..Len(replyLog) : replyLog[i] = script[i]

\* The GET scenario: acknowledgements the driver accepts to init, bearer,
\* URL, SSL and action, "+HTTPACTION: 0,200,5", the given reply to
\* AT+HTTPREAD, and an acknowledgement to terminate.
GetScript(readReply) ==
    <<RSP_LEAD_OK, RSP_LEAD_OK, RSP_LEAD_OK, RSP_LEAD_OK,
      RSP_LEAD_OK \o ActionLine(HTTPACTION_GET_PREFIX, D_200, D_5),
      readReply, RSP_LEAD_OK>>

GetReturned(readReply) ==
    /\ phase = "idle"
    /\ op = "GET"
    /\ recvBufferSize >= Len(HELLO)
    /\ Conforms(GetScript(readReply))

GotHello == rc = 200 /\ CStr(recvBuffer) = HELLO /\ dataSize = 5

\* C4 as stated: with the reply "+HTTPREAD: 5" CR LF "HELLO" "OK" to
\* AT+HTTPREAD, doGet returns 200 with "HELLO" received, length 5.
C4_GetScenarioAsStated == GetReturned(READ_BARE_HELLO) => GotHello

\* C4 amended: with the reply CR LF "+HTTPREAD: 5" CR LF "HELLO" " OK" CR LF
\* to AT+HTTPREAD (two CRLFs before the payload, the tokens not first in
\* their reads), doGet returns 200 with "HELLO" received, length 5.
C4_GetScenario == GetReturned(READ_LINE_HELLO) => GotHello

C4_Witness == GetReturned(READ_LINE_HELLO) /\ Len(replyLog) = 7 /\ rc = 200

\* C5: a doGet whose setup and action were acknowledged and whose wait for
\* the server got no byte returns 408, the receive buffer all zero and the
\* received length 0.
C5_ServerTimeout ==
    (phase = "idle" /\ op = "GET" /\ step = "WAIT" /\ consumed = <<>>)
    => /\ rc = 408
       /\ \A j \in 1..recvBufferSize : recvBuffer[j] = NUL
       /\ dataSize = 0
       /\ getDataSizeReceived = 0

C5_Witness ==
    phase = "idle" /\ op = "GET" /\ step = "WAIT" /\ consumed = <<>> /\ rc = 408

\* The step whose command was the last written when step s fails.
CommandOf(s) ==
    CASE s \in {"WAIT", "PARSE"} -> "ACTION"
      [] s = "FINAL" -> "READ"
      [] OTHER -> s

\* C6: a call that returned the code of a failed step wrote nothing after
\* the command of that step, and wrote AT+HTTPTERM only if terminate is the
\* step that failed.
C6_FailureReturnsAtOnce ==
    (phase = "idle" /\ failedStep # "NONE")
    => /\ tx # <<>>
       /\ tx[Len(tx)] = Unit(CommandOf(failedStep))
       /\ failedStep # "TERM"
          => \A i \in 1..Len(tx) : tx[i] # Framed(AT_CMD_HTTPTERM)

C6_Witness == phase = "idle" /\ failedStep = "FINAL" /\ Len(tx) = 6

\* The protocol step a place of failure belongs to.
ProtocolStep(s) == CommandOf(s)

\* The steps that share a code: the four parameter steps.
StepGroup(s) ==
    IF s \in {"CID", "URL", "SSL", "CONTENT"} THEN "PARAM" ELSE ProtocolStep(s)

\* C7 as stated: no two different protocol steps ever return the same code.
C7_CodeIdentifiesStep ==
    \A p, q \in failLog : p[2] = q[2] => ProtocolStep(p[1]) = ProtocolStep(q[1])

\* C7 amended: two failures with the same code are failures of the same
\* step, or both of a parameter step (bearer, URL, TLS mode, content type),
\* which all return 702.
C7_CodeIdentifiesStepGroup ==
    \A p, q \in failLog : p[2] = q[2] => StepGroup(p[1]) = StepGroup(q[1])

C7_Witness == {<<"CID", 702>>, <<"CONTENT", 702>>} \subseteq failLog

\* C8 as stated: every code returned for a failure the driver detected lies
\* outside 100..599.
C8_FailureCodesOutsideHttpRange ==
    (phase = "idle" /\ failedStep # "NONE") => rc \notin 100..599

\* C8 amended: the code of every failed command or check lies outside
\* 100..599; the wait for the server timing out returns 408, inside it.
C8_StepCodesOutsideHttpRange ==
    (phase = "idle" /\ failedStep # "NONE")
    => IF failedStep = "WAIT" THEN rc = 408 ELSE rc \notin 100..599

C8_Witness == phase = "idle" /\ failedStep = "TERM" /\ httpRC = 200

\* C9: after a call returned, the received length is 0 unless it returned 200.
C9_LengthZeroUnless200 ==
    (phase = "idle" /\ ncalls > 0 /\ rc # 200)
    => dataSize = 0 /\ getDataSizeReceived = 0

\* C10: after a call returned, the received length, stored and reported, is
\* at most the capacity of the receive buffer.
C10_LengthWithinCapacity ==
    (phase = "idle" /\ ncalls > 0)
    => dataSize <= recvBufferSize /\ getDataSizeReceived <= recvBufferSize

(***************************************************************************)
(* SpecCopy: a doGet from the point where readResponse has returned the    *)
(* acknowledgement of AT+HTTPREAD (line 311), for a declared length, a     *)
(* capacity and a stream of bytes the device has put on the transport      *)
(* after the acknowledgement: the payload loop, the final OK, terminate.   *)
(***************************************************************************)
MaxCopyStream == 3
MaxDeclared == 3
MaxCapacity == 2
\* The number of values of a uint8_t, the type getDataSizeReceived returns.
UINT8 == 256

\* CR, LF, 'H', 'i'
CopyAlphabet == {CR, LF, 72, 105}

\* 'H', 'i', CR, '!', LF
HI_STREAM == <<72, 105, CR, 33, LF>>

\* Nothing after the payload, or the closing " OK\r\n".
CopyTails == {<<>>, RSP_LEAD_OK}

\* <<capacity, declared length, stream>>
CopyInputs ==
    {<<c, l, b \o t>> : c \in 1..MaxCapacity, l \in 0..MaxDeclared,
                        b \in SeqsUpTo(CopyAlphabet, MaxCopyStream), t \in CopyTails}
    \cup {<<c, 3, HI_STREAM \o t>> : c \in {3, MaxCapacity + 2}, t \in CopyTails}
    \cup {<<UINT8, UINT8, [j \in 1..UINT8 |-> 120] \o RSP_LEAD_OK>>}

\* "\r\n+HTTPREAD: <l>\r\n"
ReadAck(l) == CRLF \o AT_RSP_HTTPREAD \o Dec(l) \o CRLF

\* The scratch buffer after readResponse stored the bytes of r in it.
Stored(r) == [j \in 1..ScratchSize |-> IF j <= Len(r) THEN r[j] ELSE NUL]

\* s, p: the step and the phase the run starts at.
InitCopyAt(inputs, s, p) ==
    \E in \in inputs :
        /\ internalBufferSize = ScratchSize
        /\ internalBuffer = Stored(ReadAck(in[2]))
        /\ recvBufferSize = in[1]
        /\ recvBuffer = ClearedRecvBuffer(Garbage(in[1]))
        /\ entryBuffer = Garbage(in[1])
        /\ dataSize = in[2]
        /\ stream = in[3] /\ rx = in[3] /\ dev = <<>>
        /\ op = "GET" /\ url = URL_HTTP /\ contentType = <<>> /\ payload = <<>>
        /\ tx = <<Unit("INIT"), Unit("CID"), Unit("URL"), Unit("SSL"), Unit("ACTION"),
                  Unit("READ")>>
        /\ replyLog = <<RSP_LEAD_OK, RSP_LEAD_OK, RSP_LEAD_OK, RSP_LEAD_OK,
                        RSP_LEAD_OK \o ActionLine(HTTPACTION_GET_PREFIX, D_200, Dec(in[2])),
                        ReadAck(in[2])>>
        /\ step = s /\ phase = p
        /\ currentSizeResponse = Len(ReadAck(in[2])) - 1
        /\ seenCR = TRUE /\ countCRLF = 2 /\ crlfToWait = 2
        /\ expired = FALSE /\ rrResult = TRUE
        /\ consumed = ReadAck(in[2])
        /\ httpRC = 200 /\ idxBase = 0 /\ copyIdx = 0 /\ rc = 0
        /\ lateDelivery = FALSE /\ failedStep = "NONE" /\ failLog = {} /\ ncalls = 1
        /\ NoMatcher /\ NoPower

InitCopy == InitCopyAt(CopyInputs, "READ", "ret_read")

NextCopy == AfterRead \/ CopyIter \/ RR_Iter \/ Tick \/ RTF_Iter \/ SendCommandWrite

SpecCopy == InitCopy /\ [][NextCopy]_vars

(***************************************************************************)
(* Claims about the payload copy.                                          *)
(***************************************************************************)
Min(a, b) == IF a < b THEN a ELSE b

\* The number a run of decimal digits writes.
RECURSIVE DecValue(_)
DecValue(d) ==
    IF d = <<>> THEN 0 ELSE DecValue(SubSeq(d, 1, Len(d) - 1)) * 10 + (d[Len(d)] - CH_0)

\* The length the device declared in its "+HTTPACTION: 0,200,<length>" line:
\* the digits between the second comma and the CR LF.
DeclaredLength ==
    LET r == replyLog[5]
        from == Len(RSP_LEAD_OK) + Len(HTTPACTION_GET_PREFIX) + Len(D_200) + 2
    IN DecValue(SubSeq(r, from, Len(r) - 2))

\* C11: after a call returned 200, getDataSizeReceived() is the smaller of
\* the declared length and the capacity of the receive buffer.
C11_ReportedLengthIsMin ==
    (phase = "idle" /\ ncalls > 0 /\ rc = 200 /\ Len(replyLog) >= 5)
    => getDataSizeReceived = Min(DeclaredLength, recvBufferSize)

\* The bytes of s that are neither CR nor LF, in order.
IsPayloadByte(b) == b # CR /\ b # LF
PayloadBytes(s) == SelectSeq(s, IsPayloadByte)

\* The bytes of the stream the payload loop has read so far.
CopyRead == SubSeq(stream, 1, Len(stream) - Len(rx))

\* C12: while the payload loop runs, the receive buffer holds at 0..i-1 the
\* bytes read so far that are neither CR nor LF, i being the write index,
\* which is below the capacity; once the loop has ended the buffer holds at
\* 0..m-1 the first m such bytes of the stream, m the smaller of the
\* declared length and the capacity.
C12_CopyFiltersLineBreaks ==
    /\ phase = "copy"
       => /\ copyIdx = Len(PayloadBytes(CopyRead))
          /\ copyIdx < recvBufferSize
          /\ SubSeq(recvBuffer, 1, copyIdx) = PayloadBytes(CopyRead)
    /\ step \in {"FINAL", "TERM"}
       => LET m == Min(DeclaredLength, recvBufferSize)
          IN SubSeq(recvBuffer, 1, m) = SubSeq(PayloadBytes(stream), 1, m)

C12_Witness ==
    /\ step = "FINAL"
    /\ stream # <<>>
    /\ stream[1] \in {CR, LF}
    /\ DeclaredLength > recvBufferSize
    /\ recvBufferSize = 2
    /\ recvBuffer = <<105, 72>>

\* The payload loop has just ended on a stream that starts 'H' 'i' CR '!'
\* LF, for a declared length of 3 and a capacity of at least 3.
HiCopyDone ==
    /\ step = "FINAL" /\ phase = "read" /\ consumed = <<>>
    /\ Len(stream) >= Len(HI_STREAM)
    /\ SubSeq(stream, 1, Len(HI_STREAM)) = HI_STREAM
    /\ DeclaredLength = 3
    /\ recvBufferSize >= 3

\* "Hi!"
HI_PAYLOAD == <<72, 105, 33>>

\* C13 as stated: the loop leaves "Hi!", length 3, and has consumed all 5
\* bytes of the stream.
C13_HiConsumesFive ==
    HiCopyDone
    => /\ SubSeq(recvBuffer, 1, 3) = HI_PAYLOAD
       /\ dataSize = 3
       /\ Len(stream) - Len(rx) = 5

\* C13 amended: the loop leaves "Hi!", length 3, and has consumed 4 bytes;
\* the LF after '!' is the next byte on the transport.
C13_HiConsumesFour ==
    HiCopyDone
    => /\ SubSeq(recvBuffer, 1, 3) = HI_PAYLOAD
       /\ dataSize = 3
       /\ Len(stream) - Len(rx) = 4
       /\ Head(rx) = LF

C13_Witness == HiCopyDone /\ recvBufferSize = 3 /\ Len(rx) = 1

(***************************************************************************)
(* Claims about the receive buffer across calls (SpecHttp).                *)
(***************************************************************************)
AllZero(buf) == \A j \in 1..Len(buf) : buf[j] = NUL

\* A call has returned something other than 200, and the receive buffer
\* held the fetched payload "HELLO" when the call began.
ReturnedWithoutFetch ==
    /\ phase = "idle" /\ ncalls > 0 /\ rc # 200
    /\ \A j \in 1..Min(Len(entryBuffer), Len(HELLO)) : entryBuffer[j] = HELLO[j]

MaxFairStream == 2

\* Capacity 2, a declared length up to 2, a stream of CR and 'H'.
CopyFairInputs ==
    {<<2, l, b \o t>> : l \in 1..2, b \in SeqsUpTo({CR, 72}, MaxFairStream),
                        t \in CopyTails}

\* The runs start where the acknowledgement has been accepted and the
\* payload loop is entered (line 316).
InitCopyFair == InitCopyAt(CopyFairInputs, "COPY", "copy")

SpecCopyFair == InitCopyFair /\ [][NextCopy]_vars /\ WF_vars(NextCopy)

\* C15: the call eventually returns.
C15_CallReturns == <>(phase = "idle")

(***************************************************************************)
(* Claims about command framing (SpecHttp).                                *)
(***************************************************************************)
\* The commands a call sends without a parameter; the last is
\* "AT+HTTPDATA=3,10000", printed for the payload "x=1".
PlainCommands ==
    {AT_CMD_HTTPINIT, AT_CMD_HTTPPARA_CID, AT_CMD_HTTPSSL_Y, AT_CMD_HTTPSSL_N,
     AT_CMD_HTTPACTION0, AT_CMD_HTTPACTION1, AT_CMD_HTTPREAD, AT_CMD_HTTPTERM,
     HTTPDATA_PREFIX \o <<51, 44, 49, 48, 48, 48, 48>>}

\* command CR LF, or command '"' parameter '"' CR LF.
WellFramed(u) ==
    \/ \E c \in PlainCommands : u = c \o <<13, 10>>
    \/ u = AT_CMD_HTTPPARA_URL \o <<34>> \o url \o <<34, 13, 10>>
    \/ u = AT_CMD_HTTPPARA_CONTENT \o <<34>> \o contentType \o <<34, 13, 10>>

\* C16: every unit a command-framing call wrote is the command, then the
\* parameter between double quotes if there is one, then CR LF (the only
\* other unit written is the POST payload); and while the drain of a step
\* reads, the command of that step has not been written.
C16_CommandsAreFramed ==
    /\ \A i \in 1..Len(tx) : WellFramed(tx[i]) \/ (op = "POST" /\ tx[i] = payload)
    /\ Len(tx) >= 3 => tx[3] = AT_CMD_HTTPPARA_URL \o <<34>> \o url \o <<34, 13, 10>>
    /\ phase = "drain" => \A i \in 1..Len(tx) : tx[i] # Unit(step)

C16_Witness ==
    /\ phase = "idle" /\ op = "POST" /\ rc = 200
    /\ \E i \in 1..Len(tx) :
          tx[i] = AT_CMD_HTTPPARA_CONTENT \o <<34>> \o contentType \o <<34, 13, 10>>

(***************************************************************************)
(* The status queries and the power-mode change: getPowerMode (lines       *)
(* 459-481), getRegistrationStatus (486-511), setPowerMode (553-599).      *)
(* The enumerants of PowerMode and NetworkRegistration are their names.    *)
(* `step' is "QUERY" (the AT+CFUN? of getPowerMode), "CREG" (AT+CREG?),    *)
(* "CHANGE" (the AT+CFUN=<n> of setPowerMode), "FORGET" (its               *)
(* readToForget(10000)) or "REQUERY" (the second getPowerMode).            *)
(***************************************************************************)
\* 'AT+CFUN?'  (SIM800L.cpp:40)
AT_CMD_CFUN_TEST ==
    <<65, 84, 43, 67, 70, 85, 78, 63>>
\* 'AT+CFUN=0'  (SIM800L.cpp:41)
AT_CMD_CFUN0 ==
    <<65, 84, 43, 67, 70, 85, 78, 61, 48>>
\* 'AT+CFUN=1'  (SIM800L.cpp:42)
AT_CMD_CFUN1 ==
    <<65, 84, 43, 67, 70, 85, 78, 61, 49>>
\* 'AT+CFUN=4'  (SIM800L.cpp:43)
AT_CMD_CFUN4 ==
    <<65, 84, 43, 67, 70, 85, 78, 61, 52>>
\* 'AT+CREG?'  (SIM800L.cpp:45)
AT_CMD_CREG_TEST ==
    <<65, 84, 43, 67, 82, 69, 71, 63>>
\* 'ERROR'  (SIM800L.cpp:463)
RSP_ERROR ==
    <<69, 82, 82, 79, 82>>
\* '+CFUN: '  (SIM800L.cpp:469)
CFUN_PREFIX ==
    <<43, 67, 70, 85, 78, 58, 32>>
\* '+CREG: '  (SIM800L.cpp:496)
CREG_PREFIX ==
    <<43, 67, 82, 69, 71, 58, 32>>

\* The modes setPowerMode may be asked for.
PowerModes == {"MINIMUM", "NORMAL", "POW_UNKNOWN", "SLEEP", "POW_ERROR"}

\* getPowerMode after its readResponse (lines 461-480); ok: what the read
\* returned.
ParsePowerMode(buf, ok) ==
    IF ~ok THEN "POW_ERROR"
    ELSE IF strIndex(CStr(buf), RSP_ERROR, 0) > 0 THEN "POW_ERROR"
    ELSE LET idx == strIndex(CStr(buf), CFUN_PREFIX, 0)
             value == At(buf, idx + 7)
         IN CASE value = 48 -> "MINIMUM"
              [] value = 49 -> "NORMAL"
              [] value = 52 -> "SLEEP"
              [] OTHER -> "POW_UNKNOWN"

\* getRegistrationStatus after its readResponse (lines 488-510).
ParseRegistration(buf, ok) ==
    IF ~ok THEN "NET_ERROR"
    ELSE IF strIndex(CStr(buf), RSP_ERROR, 0) > 0 THEN "NET_ERROR"
    ELSE LET idx == strIndex(CStr(buf), CREG_PREFIX, 0)
             value == At(buf, idx + 9)
         IN CASE value = 48 -> "NOT_REGISTERED"
              [] value = 49 -> "REGISTERED_HOME"
              [] value = 50 -> "SEARCHING"
              [] value = 51 -> "DENIED"
              [] value = 53 -> "REGISTERED_ROAMING"
              [] OTHER -> "NET_UNKNOWN"

\* Line 555 / 563: the mode is not one of the three.
Undefined(mode) == mode = "POW_ERROR" \/ mode = "POW_UNKNOWN"

\* TransitionRejected with every transition allowed.
TransitionRejected_Never(current, requested) == FALSE

\* Line 573: from SLEEP or MINIMUM only NORMAL is allowed.
TransitionRejected(current, requested) ==
    (current = "SLEEP" \/ current = "MINIMUM") /\ requested # "NORMAL"

\* The switch of lines 579-589.
ChangeCommand(mode) ==
    CASE mode = "MINIMUM" -> AT_CMD_CFUN0
      [] mode = "SLEEP" -> AT_CMD_CFUN4
      [] OTHER -> AT_CMD_CFUN1

\* SwitchedTo with the change taken for granted.
SwitchedTo_Assumed(current, requested) == TRUE

\* Line 598: the result after the second query.
SwitchedTo(current, requested) == current = requested

\* What the step writes.
PowerUnit(s) ==
    CASE s = "CREG" -> Framed(AT_CMD_CREG_TEST)
      [] s = "CHANGE" -> Framed(ChangeCommand(powerMode))
      [] OTHER -> Framed(AT_CMD_CFUN_TEST)

(***************************************************************************)
(* The device: one line after a query, or nothing.                         *)
(***************************************************************************)
\* "+CFUN: <d>\r\n" for d in '0', '1', '4', '7'; "ERROR\r\n"; " ERROR\r\n"
CfunReplies ==
    {CFUN_PREFIX \o <<d>> \o CRLF : d \in {48, 49, 52, 55}}
    \cup {RSP_ERROR \o CRLF, <<32>> \o RSP_ERROR \o CRLF, <<>>}

\* "+CREG: 0,<d>\r\n" for d in '1', '5', '9'; "ERROR\r\n"; " ERROR\r\n"
CregReplies ==
    {CREG_PREFIX \o <<48, 44, d>> \o CRLF : d \in {49, 53, 57}}
    \cup {RSP_ERROR \o CRLF, <<32>> \o RSP_ERROR \o CRLF, <<>>}

\* " OK\r\n", " ERROR\r\n" or nothing after AT+CFUN=<n>.
ChangeReplies == {RSP_LEAD_OK, <<32>> \o RSP_ERROR \o CRLF, <<>>}

PowerReplies(s) ==
    CASE s = "CREG" -> CregReplies
      [] s = "CHANGE" -> ChangeReplies
      [] OTHER -> CfunReplies

(***************************************************************************)
(* The operations.                                                         *)
(***************************************************************************)
MaxPowerCalls == 1
PowerScratch == 16

\* What a power operation leaves alone in every step.
PowerFrame ==
    UNCHANGED <<internalBufferSize, recvBufferSize, recvBuffer, dataSize, dev,
                url, contentType, payload, localVars, stream, lateDelivery,
                entryBuffer, matcherVars>>

\* A call of operation o begins with the sendCommand of step s.
PowerBegin(o, mode, s) ==
    /\ phase = "idle"
    /\ ncalls < MaxPowerCalls
    /\ op' = o
    /\ powerMode' = mode
    /\ currentPowerMode' = "NONE" /\ queryResult' = "NONE" /\ setResult' = FALSE
    /\ observed' = <<>>
    /\ tx' = <<>> /\ replyLog' = <<>>
    /\ ncalls' = ncalls + 1
    /\ K_Command(s)
    /\ rx' = rx
    /\ PowerFrame

GetPowerModeCall == PowerBegin("getPowerMode", "NONE", "QUERY")

GetRegistrationStatusCall == PowerBegin("getRegistrationStatus", "NONE", "CREG")

\* setPowerMode(mode): lines 555-557, then the getPowerMode of line 560.
SetPowerModeCall ==
    \E mode \in PowerModes :
        IF Undefined(mode)
        THEN /\ phase = "idle"
             /\ ncalls < MaxPowerCalls
             /\ op' = "setPowerMode"
             /\ powerMode' = mode
             /\ currentPowerMode' = "NONE" /\ queryResult' = "NONE"
             /\ setResult' = FALSE
             /\ observed' = <<>>
             /\ tx' = <<>> /\ replyLog' = <<>>
             /\ ncalls' = ncalls + 1
             /\ UNCHANGED <<internalBuffer, rx, readerVars, step, phase, rc, consumed,
                            failedStep, failLog>>
             /\ PowerFrame
        ELSE PowerBegin("setPowerMode", mode, "QUERY")

\* The writes of sendCommand for a query or for the mode change, what the
\* device sends back, and the wait that follows: readResponse after a
\* query, readToForget(10000) after the mode change (line 592).
PowerWrite ==
    /\ phase = "write"
    /\ step \in {"QUERY", "REQUERY", "CREG", "CHANGE"}
    /\ tx' = Append(tx, PowerUnit(step))
    /\ \E r \in PowerReplies(step) :
          /\ rx' = rx \o r
          /\ replyLog' = Append(replyLog, r)
    /\ IF step = "CHANGE"
       THEN K_Command("FORGET")
       ELSE K_Read(step, DefaultCrlfToWait)
    /\ UNCHANGED <<op, ncalls, powerVars>>
    /\ PowerFrame

\* readToForget(10000) has returned: the second getPowerMode (line 595)
\* begins with its sendCommand.
PowerForgot ==
    /\ phase = "write"
    /\ step = "FORGET"
    /\ K_Command("REQUERY")
    /\ UNCHANGED <<rx, tx, replyLog, op, ncalls, powerVars>>
    /\ PowerFrame

\* The operation returns.
PowerReturn ==
    /\ phase' = "idle"
    /\ UNCHANGED <<step, internalBuffer, rx, tx, replyLog, readerVars, rc, consumed,
                   failedStep, failLog>>

\* The code after the readResponse of a query returned.
PowerAfterRead ==
    /\ phase = "ret_read"
    /\ step \in {"QUERY", "REQUERY", "CREG"}
    /\ CASE op = "getPowerMode" ->
              /\ queryResult' = ParsePowerMode(internalBuffer, rrResult)
              /\ PowerReturn
              /\ UNCHANGED <<powerMode, currentPowerMode, setResult, observed>>
         [] op = "getRegistrationStatus" ->
              /\ queryResult' = ParseRegistration(internalBuffer, rrResult)
              /\ PowerReturn
              /\ UNCHANGED <<powerMode, currentPowerMode, setResult, observed>>
         [] op = "setPowerMode" ->
              LET current == ParsePowerMode(internalBuffer, rrResult)
              IN /\ currentPowerMode' = current
                 /\ observed' = Append(observed, current)
                 /\ UNCHANGED <<powerMode, queryResult>>
                 /\ IF step = "REQUERY"
                    THEN setResult' = SwitchedTo(current, powerMode) /\ PowerReturn
                    ELSE IF Undefined(current)
                    THEN setResult' = FALSE /\ PowerReturn
                    ELSE IF current = powerMode
                    THEN setResult' = TRUE /\ PowerReturn
                    ELSE IF TransitionRejected(current, powerMode)
                    THEN setResult' = FALSE /\ PowerReturn
                    ELSE /\ setResult' = setResult
                         /\ K_Command("CHANGE")
                         /\ UNCHANGED <<rx, tx, replyLog>>
    /\ UNCHANGED <<op, ncalls>>
    /\ PowerFrame

\* Bytes the device sent unasked before the call: none, 3, or 2 more than
\* the scratch buffer holds ('U').
PowerPending == {[j \in 1..n |-> 85] : n \in {0, 3, PowerScratch + 2}}

InitPower ==
    /\ internalBufferSize = PowerScratch
    /\ internalBuffer = Garbage(PowerScratch)
    /\ recvBufferSize = 1 /\ recvBuffer = Garbage(1) /\ dataSize = 0
    /\ stream \in PowerPending
    /\ rx = stream /\ dev = <<>> /\ tx = <<>>
    /\ phase = "idle"
    /\ NoReader /\ NoSession /\ NoMatcher /\ NoPower

NextPower ==
    \/ GetPowerModeCall \/ GetRegistrationStatusCall \/ SetPowerModeCall
    \/ RTF_Iter \/ PowerWrite \/ PowerForgot \/ RR_Iter \/ PowerAfterRead \/ Tick

SpecPower == InitPower /\ [][NextPower]_vars

(***************************************************************************)
(* Claims about the drain, the power mode and the status queries.          *)
(***************************************************************************)
\* C17: when the drain of a sendCommand has ended and the command is about
\* to be written, no byte is left pending on the transport.
C17_DrainTakesAllPending == (phase = "write" /\ step # "FORGET") => rx = <<>>
\* The three modes that can be asked for and observed.
DefinedModes == {"MINIMUM", "NORMAL", "SLEEP"}

\* "AT+CFUN=<n>\r\n" for n in '0', '1', '4'
ModeChangeUnits == {<<65, 84, 43, 67, 70, 85, 78, 61, n, 13, 10>> : n \in {48, 49, 52}}

WroteModeChange == \E i \in 1..Len(tx) : tx[i] \in ModeChangeUnits

\* The mode change is legal: both modes defined, different, one of them
\* NORMAL.
LegalChange(current, requested) ==
    /\ current \in DefinedModes /\ requested \in DefinedModes
    /\ current # requested
    /\ current = "NORMAL" \/ requested = "NORMAL"

\* C18: in a setPowerMode call a mode-change command has been written only
\* if the first query observed a mode from which the requested one is a
\* legal change; a call that returned without such a first observation
\* (request or observation undefined, or change not legal and not already in
\* the mode) wrote no mode-change command and returned false.
C18_ModeChangeOnlyWhenLegal ==
    op = "setPowerMode"
    => /\ WroteModeChange
          => observed # <<>> /\ LegalChange(observed[1], powerMode)
       /\ (/\ phase = "idle"
           /\ \/ Undefined(powerMode)
              \/ observed # <<>> /\ Undefined(observed[1])
              \/ /\ observed # <<>>
                 /\ observed[1] # powerMode
                 /\ ~LegalChange(observed[1], powerMode))
          => ~WroteModeChange /\ setResult = FALSE

C18_Witness ==
    /\ op = "setPowerMode" /\ phase = "idle"
    /\ powerMode = "MINIMUM" /\ observed = <<"SLEEP">>
    /\ setResult = FALSE /\ Len(tx) = 1

\* C19: setPowerMode has returned true exactly when it made a mode query
\* and the last one observed the requested mode.
C19_TrueIffLastQuerySawMode ==
    (op = "setPowerMode" /\ phase = "idle")
    => (setResult <=> (observed # <<>> /\ observed[Len(observed)] = powerMode))

\* A change the device answered with ERROR, after which the query observed
\* the requested mode.
C19_Witness ==
    /\ op = "setPowerMode" /\ phase = "idle"
    /\ Len(observed) = 2 /\ setResult
    /\ replyLog[2] = <<32>> \o RSP_ERROR \o CRLF

\* C20: a status query whose response holds the token ERROR returned the
\* ERROR enumerant.
C20_ErrorTokenGivesError ==
    (/\ phase = "idle"
     /\ op \in {"getPowerMode", "getRegistrationStatus"}
     /\ rrResult
     /\ FirstOccurrence(CStr(internalBuffer), RSP_ERROR, 0) >= 0)
    => queryResult = (IF op = "getPowerMode" THEN "POW_ERROR" ELSE "NET_ERROR")

(***************************************************************************)
(* Soundness of the matcher.                                               *)
(***************************************************************************)
\* C23: an index i >= 0 returned by strIndex is at least startOffset, and
\* the needle occurs in the haystack as a contiguous substring starting
\* exactly at i.
C23_MatcherIsSound ==
    (matchResult # <<>> /\ findStr # <<>> /\ matchResult[1] >= 0)
    => /\ matchResult[1] >= startIdx
       /\ Occurs(str, findStr, matchResult[1])

\* A match found at the second occurrence of the needle, the first one
\* starting before the start offset.
C23_Witness ==
    /\ matchResult # <<>>
    /\ startIdx = 1
    /\ Len(findStr) = 2
    /\ matchResult[1] = 2
    /\ Occurs(str, findStr, 0)

(***************************************************************************)
(* The terminator of the scratch buffer.                                   *)
(***************************************************************************)
\* C24: whenever readResponse returns success, the scratch buffer holds a
\* zero byte at some index below its capacity, also when the read ended
\* because the buffer was full or the closing LF went into the last slot.
C24_SuccessLeavesTerminator ==
    (phase = "ret_read" /\ rrResult)
    => \E j \in 1..internalBufferSize : internalBuffer[j] = NUL

(***************************************************************************)
(* SpecParse: a doGet or doPost from the point where the action was        *)
(* acknowledged and readResponse(serverReadTimeoutMs) has begun (line 270  *)
(* / 160), the action-response line of the device on the transport: the    *)
(* parse of the status and of the length, the read of the payload, the     *)
(* final OK, terminate.                                                    *)
(***************************************************************************)
ParseScratch == 32

\* "200", "404", "201", "999"
ParseStatuses == {D_200, D_404, <<50, 48, 49>>, <<57, 57, 57>>}

\* "0", "5", "1234", "65535", "00012", and two fields above 65535: "65536"
\* and "99999"
ParseLengths ==
    {D_0, D_5, <<49, 50, 51, 52>>, <<54, 53, 53, 51, 53>>, <<48, 48, 48, 49, 50>>,
     <<54, 53, 53, 51, 54>>, <<57, 57, 57, 57, 57>>}

\* Nothing or one space before the line.
ParseLeads == {<<>>, <<32>>}

\* The commands written and the replies received up to the action.
SetupSteps(o) ==
    IF o = "GET" THEN <<"INIT", "CID", "URL", "SSL", "ACTION">>
    ELSE <<"INIT", "CID", "URL", "SSL", "CONTENT", "DATA", "PAYLOAD", "ACTION">>

SetupReply(s, line) ==
    CASE s = "DATA" -> RSP_LEAD_DOWNLOAD
      [] s = "ACTION" -> RSP_LEAD_OK \o line
      [] OTHER -> RSP_LEAD_OK

InitParse ==
    \E o \in {"GET", "POST"}, lead \in ParseLeads, st \in ParseStatuses,
       len \in ParseLengths :
        LET prefix == IF o = "GET" THEN HTTPACTION_GET_PREFIX
                      ELSE HTTPACTION_POST_PREFIX
            line == lead \o ActionLine(prefix, st, len)
            steps == SetupSteps(o)
        IN /\ internalBufferSize = ParseScratch
           /\ internalBuffer = initInternalBuffer(ParseScratch)
           /\ recvBufferSize = MaxRecv
           /\ recvBuffer = ClearedRecvBuffer(Garbage(MaxRecv))
           /\ entryBuffer = Garbage(MaxRecv)
           /\ dataSize = 0
           /\ stream = line /\ rx = line /\ dev = <<>>
           /\ op = o /\ url = URL_HTTP
           /\ contentType = (IF o = "GET" THEN <<>> ELSE CONTENT_TYPE)
           /\ payload = (IF o = "GET" THEN <<>> ELSE PAYLOAD)
           /\ tx = [j \in 1..Len(steps) |-> Unit(steps[j])]
           /\ replyLog = [j \in 1..Len(steps) |-> SetupReply(steps[j], line)]
           /\ step = "WAIT" /\ phase = "read"
           /\ currentSizeResponse = 0
           /\ seenCR = FALSE /\ countCRLF = 0 /\ crlfToWait = DefaultCrlfToWait
           /\ expired = FALSE /\ rrResult = FALSE
           /\ consumed = <<>>
           /\ httpRC = 0 /\ idxBase = 0 /\ copyIdx = 0 /\ rc = 0
           /\ lateDelivery = FALSE /\ failedStep = "NONE" /\ failLog = {} /\ ncalls = 1
           /\ NoMatcher /\ NoPower

NextParse == RR_Iter \/ AfterRead \/ RTF_Iter \/ Tick \/ SendCommandWrite \/ CopyIter

SpecParse == InitParse /\ [][NextParse]_vars

(***************************************************************************)
(* Claims about the parse of the action-response line.                     *)
(***************************************************************************)
\* Where the "+HTTPACTION: <m>," prefix starts in the line the device sent.
LineStart == FirstOccurrence(stream, ActionPrefix, 0)

\* The three bytes at offset 15 after the start of the prefix.
StatusField == SubSeq(stream, LineStart + 16, LineStart + 18)

\* The bytes between the comma after the status and the CR LF of the line.
LengthField == SubSeq(stream, LineStart + 20, Len(stream) - 2)

IsDigit(b) == b >= CH_0 /\ b <= CH_0 + 9

\* A run of 1 to 5 digits of value at most 65535.
LengthFieldInRange ==
    /\ Len(LengthField) \in 1..5
    /\ \A j \in 1..Len(LengthField) : IsDigit(LengthField[j])
    /\ DecValue(LengthField) <= 65535

\* C21: once the action-response line was parsed, the status is the decimal
\* value of the three digits at offset 15 after the start of the prefix, and
\* for a status of 200 the length, until the copy cuts it to the capacity, is
\* the decimal value of a length field of 1 to 5 digits worth at most 65535.
C21_FieldsParsed ==
    /\ step \in {"READ", "COPY", "FINAL", "TERM"}
       => httpRC = DecValue(StatusField)
    /\ (step \in {"READ", "COPY"} /\ LengthFieldInRange)
       => httpRC = 200 /\ dataSize = DecValue(LengthField)

\* "+HTTPACTION: 0,200,1234" parsed: status 200, length 1234.
C21_Witness ==
    /\ stream = ActionLine(HTTPACTION_GET_PREFIX, D_200, <<49, 50, 51, 52>>)
    /\ step = "READ" /\ phase = "drain"
    /\ httpRC = 200 /\ dataSize = 1234

(***************************************************************************)
(* Claims about the order of the units written (SpecHttp).                 *)
(***************************************************************************)
StartsWith(u, p) == Len(u) >= Len(p) /\ SubSeq(u, 1, Len(p)) = p

\* The command a written unit carries; a unit that carries none is the raw
\* payload.
KindOf(u) ==
    CASE StartsWith(u, AT_CMD_HTTPINIT) -> "INIT"
      [] StartsWith(u, AT_CMD_HTTPPARA_CID) -> "CID"
      [] StartsWith(u, AT_CMD_HTTPPARA_URL) -> "URL"
      [] StartsWith(u, AT_CMD_HTTPSSL_Y) \/ StartsWith(u, AT_CMD_HTTPSSL_N) -> "SSL"
      [] StartsWith(u, AT_CMD_HTTPPARA_CONTENT) -> "CONTENT"
      [] StartsWith(u, HTTPDATA_PREFIX) -> "DATA"
      [] StartsWith(u, AT_CMD_HTTPACTION0) \/ StartsWith(u, AT_CMD_HTTPACTION1) -> "ACTION"
      [] StartsWith(u, AT_CMD_HTTPREAD) -> "READ"
      [] StartsWith(u, AT_CMD_HTTPTERM) -> "TERM"
      [] OTHER -> "PAYLOAD"

\* The canonical order for a method, with or without the read of the payload.
CanonicalOrder(o, fetch) ==
    <<"INIT", "CID", "URL", "SSL">>
    \o (IF o = "POST" THEN <<"CONTENT", "DATA", "PAYLOAD">> ELSE <<>>)
    \o <<"ACTION">>
    \o (IF fetch THEN <<"READ">> ELSE <<>>)
    \o <<"TERM">>

IsPrefix(a, b) == Len(a) <= Len(b) /\ SubSeq(b, 1, Len(a)) = a

\* The units written by the running call are a prefix of the canonical order,
\* AT+HTTPREAD being in it exactly when the parsed status is 200.
InCanonicalOrder ==
    op # "none"
    => IsPrefix([j \in 1..Len(tx) |-> KindOf(tx[j])], CanonicalOrder(op, httpRC = 200))

\* The token the response to the command of step s must hold.
AwaitedToken(s) ==
    CASE s = "DATA" -> AT_RSP_DOWNLOAD
      [] s \in {"READ", "COPY"} -> AT_RSP_HTTPREAD
      [] OTHER -> AT_RSP_OK

\* The read that just returned succeeded and holds the token.
TokenSeen(token) ==
    /\ phase = "ret_read"
    /\ rrResult
    /\ \E i \in 0..Len(internalBuffer) : Occurs(CStr(internalBuffer), token, i)

\* One step of a call: the order holds after every step that changes the
\* units written, the parsed status or the method (it holds before the first
\* call, nothing being written); a unit is written only by the write of the
\* current step; and the call leaves a step only with the token of its
\* command seen (the payload, which awaits no token, is followed by the
\* action at once).
OrderedStep ==
    /\ (tx' # tx \/ httpRC' # httpRC \/ op' # op) => InCanonicalOrder'
    /\ (tx' # tx /\ tx' # <<>>)
       => /\ phase = "write"
          /\ tx' = Append(tx, tx'[Len(tx')])
          /\ KindOf(tx'[Len(tx')]) = step
    /\ (step' # step /\ phase # "idle")
       => CASE step = "PAYLOAD" -> step' = "ACTION" /\ phase = "write"
            [] step = "WAIT" -> /\ phase = "ret_read" /\ rrResult
                                /\ step' \in {"READ", "TERM"}
                                /\ (step' = "READ") <=> (httpRC' = 200)
            [] step = "COPY" -> step' = "FINAL"
            [] OTHER -> TokenSeen(AwaitedToken(step))

\* C22: in every execution of doGet / doPost the units written are a prefix
\* of INIT, CID, URL, SSL, [POST: CONTENT, DATA, payload], ACTION, [status
\* 200: READ], TERM; a unit is written only after the token awaited from the
\* preceding command was matched, and no payload byte is written unless the
\* DOWNLOAD prompt was matched.
C22_UnitsInOrder == [][OrderedStep]_vars

\* A doPost that returned 200 after writing all ten units.
C22_Witness ==
    /\ phase = "idle" /\ op = "POST" /\ rc = 200
    /\ Len(tx) = 10
    /\ tx[7] = payload

====
